---- MODULE Spec2Model ----
(***************************************************************************)
(* Binarized layers of tiny-cnn / tiny-dnn:                                *)
(*   binarized_fc_layer  (src/tiny_cnn/layers/binarized_fc_layer.h)        *)
(*   binarynet_layer     (src/tiny_dnn/layers/binarynet_layer.h)           *)
(*   bnn_conv_layer      (src/tiny_dnn/layers/bnn_conv_layer.h)            *)
(* Vectors are functions over 0..n-1 so that the index arithmetic of the   *)
(* source (c * out_size_ + i, ...) is kept literally.                      *)
(***************************************************************************)
EXTENDS Integers, Sequences, FiniteSets, TLC

\* ------------------------------------------------------------------ bounds
MaxIn == 2
MaxOut == 2
MaxDim == 3
MaxCh == 2
NWorkers == 2
MaxOps == 2

\* ---------------------------------------------------------- value domains
Means == {-3, 1}
Gammas == {-2, 0, 1}
InvStds == {1}
Betas == {0, 1}
Activations == {"identity", "relu"}
Workers == 0 .. (NWorkers - 1)

\* int is 32 bits wide, size_t is 64 bits wide, kept as four 16-bit limbs
\* (least significant first)
LimbBase == 65536
IntMin == (-2147483647) - 1
IntMax == 2147483647

Abs(x) == IF x < 0 THEN -x ELSE x

\* C++ division of integers / conversion of a quotient to int: toward zero
TruncDiv(p, q) ==
  IF (p >= 0) = (q > 0) THEN Abs(p) \div Abs(q) ELSE -(Abs(p) \div Abs(q))

\* conversion int -> size_t (sign extension, i.e. x mod 2^64)
U64FromInt(x) ==
  LET q1 == x \div LimbBase
      q2 == q1 \div LimbBase
      q3 == q2 \div LimbBase
  IN  <<x % LimbBase, q1 % LimbBase, q2 % LimbBase, q3 % LimbBase>>

\* size_t + size_t, modulo 2^64
U64Add(x, y) ==
  LET s1 == x[1] + y[1]
      s2 == x[2] + y[2] + (s1 \div LimbBase)
      s3 == x[3] + y[3] + (s2 \div LimbBase)
      s4 == x[4] + y[4] + (s3 \div LimbBase)
  IN  <<s1 % LimbBase, s2 % LimbBase, s3 % LimbBase, s4 % LimbBase>>

\* size_t / 2
U64Half(x) ==
  <<(x[1] \div 2) + (x[2] % 2) * (LimbBase \div 2),
    (x[2] \div 2) + (x[3] % 2) * (LimbBase \div 2),
    (x[3] \div 2) + (x[4] % 2) * (LimbBase \div 2),
    x[4] \div 2>>

U64Zero == <<0, 0, 0, 0>>

U64Max == <<LimbBase - 1, LimbBase - 1, LimbBase - 1, LimbBase - 1>>

\* size_t / 10 and size_t % 10 (long division from the top limb)
U64DivMod10(x) ==
  LET c4 == x[4]
      c3 == (c4 % 10) * LimbBase + x[3]
      c2 == (c3 % 10) * LimbBase + x[2]
      c1 == (c2 % 10) * LimbBase + x[1]
  IN  [q |-> <<c1 \div 10, c2 \div 10, c3 \div 10, c4 \div 10>>, r |-> c1 % 10]

\* operator<<(size_t): the decimal digits, most significant first
RECURSIVE U64ToDec(_)
U64ToDec(x) ==
  LET dm == U64DivMod10(x)
  IN  IF dm.q = U64Zero THEN <<dm.r>> ELSE Append(U64ToDec(dm.q), dm.r)

\* x * 10 + d with the carry out of 64 bits
U64MulAdd10(x, d) ==
  LET m1 == x[1] * 10 + d
      m2 == x[2] * 10 + (m1 \div LimbBase)
      m3 == x[3] * 10 + (m2 \div LimbBase)
      m4 == x[4] * 10 + (m3 \div LimbBase)
  IN  [v |-> <<m1 % LimbBase, m2 % LimbBase, m3 % LimbBase, m4 % LimbBase>>,
       carry |-> m4 \div LimbBase]

\* num_get for an unsigned 64-bit integer: on overflow the maximum is stored
\* and the extraction fails
RECURSIVE DecAcc(_, _, _)
DecAcc(digits, k, acc) ==
  IF k > Len(digits) THEN acc
  ELSE IF acc.fail THEN acc
  ELSE LET ma == U64MulAdd10(acc.v, digits[k])
       IN  IF ma.carry # 0 THEN [v |-> U64Max, fail |-> TRUE]
           ELSE DecAcc(digits, k + 1, [v |-> ma.v, fail |-> FALSE])

DecToU64(digits) == DecAcc(digits, 1, [v |-> U64Zero, fail |-> FALSE])

\* comparison  a >= thr  of a float holding a small integer with a size_t
\* converted to float: thr <= a needs thr below 2^16 as a <= fan-in
FloatGeU64(a, thr) ==
  /\ thr[4] = 0 /\ thr[3] = 0 /\ thr[2] = 0
  /\ a >= thr[1]


\* ------------------------------------------------------------ test vectors
\* float vectors handed to the layer by its callers (network container,
\* trainer): four sign patterns of every length, which give every sign
\* combination to a vector of two elements
Pattern(p, j) ==
  CASE p = 0 -> -1
    [] p = 1 -> 1
    [] p = 2 -> IF j % 2 = 0 THEN -1 ELSE 1
    [] OTHER -> IF j % 3 = 0 THEN 0 ELSE -1

Vectors(n) == {[j \in 0 .. (n - 1) |-> Pattern(p, j)] : p \in 0 .. 3}

\* ------------------------------------------------------------------- state
VARIABLES
  cfg,         \* constructor arguments and derived sizes (immutable)
  W_,          \* float weights, owned by the base class, written by the trainer
  Wbin_,       \* std::vector<bool> Wbin_
  Threshold_,  \* std::vector<size_t> Threshold_ (binarynet only)
  a_,          \* a_[worker]: pre-activation scratch
  output_,     \* output_[worker]: output scratch
  stream,      \* the text written by the last save, with the state it was taken from
  fresh,       \* a second, freshly constructed binarynet layer that receives load
  op,          \* the last call on the layer and how it ended
  sync,        \* history: W_ as read by the last post_update, folds and loads since
  calls,       \* concurrent forward_propagation calls in flight (SpecConc)
  nops         \* number of calls made so far

vars == <<cfg, W_, Wbin_, Threshold_, a_, output_, stream, fresh, op, sync, calls, nops>>

\* weight_dim handed to Base(...) by the three constructors
weight_dim(c) ==
  IF c.kind = "conv"
  THEN c.geo.out_channels_ * c.geo.in_channels_ * c.geo.window_size_
         * c.geo.window_size_
  ELSE c.in_size_ * c.out_size_

NoGeometry ==
  [in_width_ |-> 0, in_height_ |-> 0, window_size_ |-> 0, in_channels_ |-> 0,
   out_channels_ |-> 0, out_width_ |-> 0, out_height_ |-> 0, use_popcount_ |-> FALSE]

\* binarized_fc_layer(in_dim, out_dim)
BfcConfigs ==
  {[kind |-> "bfc", in_size_ |-> n, out_size_ |-> m, Offload_ |-> FALSE, h_ |-> h,
    geo |-> NoGeometry] :
     n \in 1 .. MaxIn, m \in 1 .. MaxOut, h \in Activations}

\* binarynet_layer(in_dim, out_dim, offload)
BinarynetConfigs ==
  {[kind |-> "binarynet", in_size_ |-> n, out_size_ |-> m, Offload_ |-> o,
    h_ |-> "identity", geo |-> NoGeometry] :
     n \in 1 .. MaxIn, m \in 1 .. MaxOut, o \in BOOLEAN}

\* bnn_conv_layer(in_width, in_height, window_size, in_channels, out_channels,
\*                use_popcount)
ConvGeometry(w, h, k, ic, oc, pc) ==
  [in_width_ |-> w, in_height_ |-> h, window_size_ |-> k, in_channels_ |-> ic,
   out_channels_ |-> oc, out_width_ |-> w - k + 1, out_height_ |-> h - k + 1,
   use_popcount_ |-> pc]

ConvConfigOf(t) ==
  [kind |-> "conv", in_size_ |-> t[1] * t[2] * t[4],
   out_size_ |-> (t[1] - t[3] + 1) * (t[2] - t[3] + 1) * t[5], Offload_ |-> FALSE,
   h_ |-> "identity", geo |-> ConvGeometry(t[1], t[2], t[3], t[4], t[5], t[6])]

\* every geometry within the bounds with window_size <= in_width, in_height
ConvConfigs ==
  {ConvConfigOf(t) :
     t \in {t \in (1 .. MaxDim) \X (1 .. MaxDim) \X (1 .. MaxDim) \X (1 .. MaxCh)
                   \X (1 .. MaxCh) \X BOOLEAN : t[3] <= t[1] /\ t[3] <= t[2]}}

\* three geometries for the operations that do not depend on the geometry:
\* <<in_width, in_height, window_size, in_channels, out_channels, use_popcount>>
ConvSamples ==
  {ConvConfigOf(t) :
     t \in {<<2, 2, 1, 1, 1, FALSE>>, <<2, 2, 2, 1, 2, TRUE>>, <<3, 2, 2, 2, 2, FALSE>>}}

ZeroVec(n) == [j \in 0 .. (n - 1) |-> 0]

FalseVec(n) == [j \in 0 .. (n - 1) |-> FALSE]

NoCall == [name |-> "none", err |-> "none", arg |-> 0]

NoStream == [text |-> <<>>, Wbin_ |-> <<>>, Threshold_ |-> <<>>, saved |-> FALSE]

\* thresholds exist in binarynet_layer only
ZeroThresholds(c) ==
  IF c.kind = "binarynet" THEN [j \in 0 .. (c.out_size_ - 1) |-> U64Zero] ELSE <<>>

NoSync(c) ==
  [done |-> FALSE, W |-> ZeroVec(weight_dim(c)), flipped |-> FalseVec(c.out_size_),
   loaded |-> FALSE,
   raw |-> [j \in 0 .. (c.out_size_ - 1) |-> [valid |-> FALSE, t |-> 0, scale |-> 0]]]

\* a layer of configuration c holding the given bits and thresholds, its
\* scratch as allocated, nothing saved, nothing called yet
Layer(c, wbin, thr, cs) ==
  /\ cfg = c
  /\ W_ = ZeroVec(weight_dim(c))
  /\ Wbin_ = wbin
  /\ Threshold_ = thr
  /\ a_ = [w \in Workers |-> ZeroVec(c.out_size_)]
  /\ output_ = [w \in Workers |-> ZeroVec(c.out_size_)]
  /\ stream = NoStream
  /\ fresh = [loaded |-> FALSE, Wbin_ |-> FalseVec(weight_dim(c)),
              Threshold_ |-> ZeroThresholds(c)]
  /\ op = NoCall
  /\ sync = NoSync(c)
  /\ calls = cs
  /\ nops = 0

\* the state the three constructors leave: every bit false, every threshold 0
Constructed(c) == Layer(c, FalseVec(weight_dim(c)), ZeroThresholds(c), <<>>)

Init == \E c \in BfcConfigs \cup BinarynetConfigs \cup ConvSamples : Constructed(c)


\* ----------------------------------------------------------------- helpers
\* float2bipolar(in, out): out[i] = in[i] >= 0 for i < in.size()
float2bipolar(in, out) ==
  [j \in DOMAIN out |-> IF j \in DOMAIN in THEN in[j] >= 0 ELSE out[j]]

fan_in_size ==
  IF cfg.kind = "conv"
  THEN cfg.geo.in_channels_ * cfg.geo.window_size_ * cfg.geo.window_size_
  ELSE cfg.in_size_

\* the call record left by a call that returned normally
Returned(name, arg) == [name |-> name, err |-> "none", arg |-> arg]

\* the call record left by a call that threw
Thrown(name, what) == [name |-> name, err |-> what, arg |-> 0]

Counted == nops < MaxOps /\ nops' = nops + 1

\* ------------------------------------------------------------ the trainer
\* the optimizer step of the network container writes the float weights
UpdateWeights(w) ==
  /\ Counted
  /\ W_' = w
  /\ op' = Returned("update_weights", 0)
  /\ UNCHANGED <<cfg, Wbin_, Threshold_, a_, output_, stream, fresh, sync, calls>>

\* --------------------------------------------------------------- post_update
post_update ==
  /\ Counted
  /\ Wbin_' = float2bipolar(W_, Wbin_)
  /\ sync' = [sync EXCEPT !.done = TRUE, !.W = W_,
                           !.flipped = FalseVec(cfg.out_size_), !.loaded = FALSE]
  /\ op' = Returned("post_update", 0)
  /\ UNCHANGED <<cfg, W_, Threshold_, a_, output_, stream, fresh, calls>>

\* ------------------------------------------------ set_threshold_from_batchnorm
\* int thres = mean - (beta / (gamma * invstd)): for integer arguments the
\* float result is at least 1/|gamma*invstd| away from an integer or is one
\* exactly, so the conversion to int is the truncated exact quotient
RawThreshold(mean, gamma, invstd, beta) ==
  TruncDiv(mean * (gamma * invstd) - beta, gamma * invstd)

\* gamma * invstd = 0 makes the float infinite or NaN; its conversion to int is
\* undefined and may yield any int, of which the least and the greatest are taken
UndefinedInts == {IntMin, IntMax}

\* the slip of indexing the bits unit-major: Wbin_[index * in_size_ + c]
FlipRow(wbin, index) ==
  [j \in DOMAIN wbin |->
     IF \E c \in 0 .. (cfg.in_size_ - 1) : j = index * cfg.in_size_ + c
     THEN ~wbin[j] ELSE wbin[j]]

\* Wbin_[c * out_size_ + index] = !Wbin_[c * out_size_ + index] for c < in_size_
FlipColumn(wbin, index) ==
  [j \in DOMAIN wbin |->
     IF \E c \in 0 .. (cfg.in_size_ - 1) : j = c * cfg.out_size_ + index
     THEN ~wbin[j] ELSE wbin[j]]

\* (thres + fan_in_size()) / 2 : int + size_t is computed in size_t
FoldThreshold(thres) ==
  U64Half(U64Add(U64FromInt(thres), U64FromInt(fan_in_size)))

Fold(index, thres0, scale) ==
  LET flip == scale < 0
      thres == IF flip THEN -thres0 ELSE thres0
  IN  /\ Wbin_' = IF flip THEN FlipColumn(Wbin_, index) ELSE Wbin_
      /\ Threshold_' = [Threshold_ EXCEPT ![index] = FoldThreshold(thres)]
      /\ sync' = [sync EXCEPT
                    !.flipped[index] = IF flip THEN ~sync.flipped[index]
                                       ELSE sync.flipped[index],
                    !.raw[index] = [valid |-> scale # 0, t |-> thres0, scale |-> scale]]

set_threshold_from_batchnorm(index, mean, gamma, invstd, beta) ==
  /\ cfg.kind = "binarynet"
  /\ Counted
  /\ IF gamma * invstd = 0
     THEN \E thres0 \in UndefinedInts : Fold(index, thres0, 0)
     ELSE Fold(index, RawThreshold(mean, gamma, invstd, beta), gamma * invstd)
  /\ op' = Returned("set_threshold_from_batchnorm", index)
  /\ UNCHANGED <<cfg, W_, a_, output_, stream, fresh, calls>>


\* ------------------------------------------------- fully-connected kernels
\* one term of the accumulation: (Wbin_[c*out_size_ + i] == in_bin[c]) ? +1 : miss
\* with miss = 0 in binarynet_layer and miss = -1 in binarized_fc_layer
Term(wbin, in_bin, c, i, miss) ==
  IF wbin[c * cfg.out_size_ + i] = in_bin[c] THEN 1 ELSE miss

Miss == IF cfg.kind = "binarynet" THEN 0 ELSE -1

\* a[i] = 0; for (c = 0; c < in_size_; c++) a[i] += ...
RECURSIVE Accumulate(_, _, _, _, _)
Accumulate(wbin, in_bin, i, c, acc) ==
  IF c >= cfg.in_size_ THEN acc
  ELSE Accumulate(wbin, in_bin, i, c + 1, acc + Term(wbin, in_bin, c, i, Miss))

\* the slip of handing on the comparison itself: out[i] = a[i] >= Threshold_[i]
CompareZeroOne(acc, thr) == IF FloatGeU64(acc, thr) THEN 1 ELSE 0

\* out[i] = a[i] >= Threshold_[i] ? +1 : -1
Compare(acc, thr) == IF FloatGeU64(acc, thr) THEN 1 ELSE -1

\* the accelerator behind Offload_: the popcount kernel over all output units
Offload(in_bin, thr, wbin) ==
  [i \in 0 .. (cfg.out_size_ - 1) |->
     FloatGeU64(Accumulate(wbin, in_bin, i, 0, 0), thr[i])]

\* out[i] = res[i] == 1 ? +1 : -1
FromBit(b) == IF b THEN 1 ELSE -1

\* h_.f(a, i) of the activation the layer is instantiated with
ActF(h, a, i) ==
  IF h = "relu" THEN (IF a[i] > 0 THEN a[i] ELSE 0) ELSE a[i]

Units == 0 .. (cfg.out_size_ - 1)

\* what one forward_propagation call leaves in a_[index] and output_[index]
BinarynetKernel(in, a, out) ==
  LET in_bin == float2bipolar(in, FalseVec(cfg.in_size_))
  IN  IF cfg.Offload_
      THEN [a |-> a,
            out |-> [i \in Units |-> FromBit(Offload(in_bin, Threshold_, Wbin_)[i])]]
      ELSE LET acc == [i \in Units |-> Accumulate(Wbin_, in_bin, i, 0, 0)]
           IN  [a |-> acc, out |-> [i \in Units |-> Compare(acc[i], Threshold_[i])]]

BfcKernel(in, a, out) ==
  LET in_bin == float2bipolar(in, FalseVec(cfg.in_size_))
      acc == [i \in Units |-> Accumulate(Wbin_, in_bin, i, 0, 0)]
  IN  [a |-> acc, out |-> [i \in Units |-> ActF(cfg.h_, acc, i)]]

Kernel(in, a, out) ==
  IF cfg.kind = "binarynet" THEN BinarynetKernel(in, a, out) ELSE BfcKernel(in, a, out)

\* the slip of one scratch for all workers: a_[0], output_[0]
ScratchShared(index) == 0

\* vec_t& a = a_[index]; vec_t& out = output_[index];
ScratchOf(index) == index

\* the slip of refreshing the bits from the float weights in the forward pass
forward_propagation_resync(in, index) ==
  /\ cfg.kind \in {"bfc", "binarynet"}
  /\ Counted
  /\ LET r == Kernel(in, a_[index], output_[index])
     IN  /\ a_' = [a_ EXCEPT ![index] = r.a]
         /\ output_' = [output_ EXCEPT ![index] = r.out]
  /\ Wbin_' = float2bipolar(W_, Wbin_)
  /\ op' = Returned("forward_propagation", index)
  /\ UNCHANGED <<cfg, W_, Threshold_, stream, fresh, sync, calls>>

\* forward_propagation of binarized_fc_layer and binarynet_layer, next_ == 0
forward_propagation(in, index) ==
  /\ cfg.kind \in {"bfc", "binarynet"}
  /\ Counted
  /\ LET r == Kernel(in, a_[ScratchOf(index)], output_[ScratchOf(index)])
     IN  /\ a_' = [a_ EXCEPT ![ScratchOf(index)] = r.a]
         /\ output_' = [output_ EXCEPT ![ScratchOf(index)] = r.out]
  /\ op' = Returned("forward_propagation", index)
  /\ UNCHANGED <<cfg, W_, Wbin_, Threshold_, stream, fresh, sync, calls>>

\* ------------------------------------------------------ convolution kernel
\* the loop nest of bnn_conv_layer::forward_propagation, in program order
OutputSites ==
  {<<oc, oy, ox>> : oc \in 0 .. (cfg.geo.out_channels_ - 1),
                    oy \in 0 .. (cfg.geo.out_height_ - 1),
                    ox \in 0 .. (cfg.geo.out_width_ - 1)}

KernelSites ==
  {<<ic, ky, kx>> : ic \in 0 .. (cfg.geo.in_channels_ - 1),
                    ky \in 0 .. (cfg.geo.window_size_ - 1),
                    kx \in 0 .. (cfg.geo.window_size_ - 1)}

weight_ind(o, k) ==
  LET weight_base ==
        o[1] * (cfg.geo.window_size_ * cfg.geo.window_size_ * cfg.geo.in_channels_)
        + (cfg.geo.window_size_ * cfg.geo.window_size_ * k[1])
  IN  weight_base + k[2] * cfg.geo.window_size_ + k[3]

input_ind(o, k) ==
  LET input_base ==
        k[1] * (cfg.geo.in_width_ * cfg.geo.in_height_) + o[2] * cfg.geo.in_width_ + o[3]
  IN  input_base + k[2] * cfg.geo.in_width_ + k[3]

\* the slip of leaving out the channel base: oy * out_width_ + ox
output_ind_flat(o) == o[2] * cfg.geo.out_width_ + o[3]

output_ind(o) ==
  LET output_base == o[1] * cfg.geo.out_height_ * cfg.geo.out_width_
  IN  output_base + o[2] * cfg.geo.out_width_ + o[3]

\* program order of the three output loops (oc outermost, ox innermost)
SiteRank(o) == (o[1] * cfg.geo.out_height_ + o[2]) * cfg.geo.out_width_ + o[3]

\* a read of a vector element; an index outside the vector has no defined value
\* and reads as "undef", which matches no bit
ReadBit(v, j) == IF j \in DOMAIN v THEN v[j] ELSE "undef"

\* acc += Wbin_[weight_ind] == in_bin[input_ind] ? +1 : (use_popcount_ ? 0 : -1)
ConvTerm(in_bin, o, k) ==
  IF ReadBit(Wbin_, weight_ind(o, k)) = ReadBit(in_bin, input_ind(o, k))
  THEN 1 ELSE (IF cfg.geo.use_popcount_ THEN 0 ELSE -1)

RECURSIVE SumOver(_, _, _)
SumOver(S, in_bin, o) ==
  IF S = {} THEN 0
  ELSE LET k == CHOOSE x \in S : TRUE
       IN  ConvTerm(in_bin, o, k) + SumOver(S \ {k}, in_bin, o)

ConvAcc(in_bin, o) == SumOver(KernelSites, in_bin, o)

\* out after the loop nest: where several sites write one index the last in
\* program order stays
ConvOut(in_bin, out) ==
  [j \in DOMAIN out |->
     LET hits == {o \in OutputSites : output_ind(o) = j}
     IN  IF hits = {} THEN out[j]
         ELSE ConvAcc(in_bin, CHOOSE o \in hits :
                                \A o2 \in hits : SiteRank(o2) <= SiteRank(o))]

\* the element accesses of one forward pass
ConvTrace ==
  [weights |-> {weight_ind(o, k) : o \in OutputSites, k \in KernelSites},
   inputs |-> {input_ind(o, k) : o \in OutputSites, k \in KernelSites},
   writes |-> [j \in {output_ind(o) : o \in OutputSites} \cup (0 .. (cfg.out_size_ - 1))
                 |-> Cardinality({o \in OutputSites : output_ind(o) = j})]]

conv_forward_propagation(in_raw, worker_index) ==
  /\ cfg.kind = "conv"
  /\ Counted
  /\ LET in_bin == float2bipolar(in_raw, FalseVec(cfg.in_size_))
     IN  output_' = [output_ EXCEPT ![worker_index] = ConvOut(in_bin, output_[worker_index])]
  /\ op' = [name |-> "forward_propagation", err |-> "none", arg |-> ConvTrace]
  /\ UNCHANGED <<cfg, W_, Wbin_, Threshold_, a_, stream, fresh, sync, calls>>

\* ---------------------------------------------------------- training path
\* throw "Not yet implemented" / throw "Not implemented"
NotImplemented == IF cfg.kind = "conv" THEN "Not implemented" ELSE "Not yet implemented"

\* the slip of a stub that hands its argument back instead of throwing
back_propagation_returns ==
  /\ Counted
  /\ op' = Returned("back_propagation", 0)
  /\ UNCHANGED <<cfg, W_, Wbin_, Threshold_, a_, output_, stream, fresh, sync, calls>>

back_propagation ==
  /\ Counted
  /\ op' = Thrown("back_propagation", NotImplemented)
  /\ UNCHANGED <<cfg, W_, Wbin_, Threshold_, a_, output_, stream, fresh, sync, calls>>

back_propagation_2nd ==
  /\ Counted
  /\ op' = Thrown("back_propagation_2nd", NotImplemented)
  /\ UNCHANGED <<cfg, W_, Wbin_, Threshold_, a_, output_, stream, fresh, sync, calls>>


\* -------------------------------------------------------------- persistence
\* save: os << (w ? 1 : 0) << "\n" for every bit, then os << thr << "\n" for
\* every threshold; the text is kept as its whitespace-separated tokens, each
\* a sequence of decimal digits
\* the slip of writing the bits inverted: os << (w ? 0 : 1)
BitTokenInverted(w) == <<IF w THEN 0 ELSE 1>>

BitToken(w) == <<IF w THEN 1 ELSE 0>>

SaveText(wbin, thr) ==
  [t \in 1 .. (weight_dim(cfg) + cfg.out_size_) |->
     IF t <= weight_dim(cfg) THEN BitToken(wbin[t - 1])
     ELSE U64ToDec(thr[t - 1 - weight_dim(cfg)])]

save ==
  /\ cfg.kind = "binarynet"
  /\ Counted
  /\ stream' = [text |-> SaveText(Wbin_, Threshold_), Wbin_ |-> Wbin_,
                Threshold_ |-> Threshold_, saved |-> TRUE]
  /\ fresh' = [loaded |-> FALSE, Wbin_ |-> FalseVec(weight_dim(cfg)),
               Threshold_ |-> [j \in Units |-> U64Zero]]
  /\ op' = Returned("save", 0)
  /\ UNCHANGED <<cfg, W_, Wbin_, Threshold_, a_, output_, sync, calls>>

\* is >> w for a bool: nothing is stored once the stream has failed or is at its
\* end; a token other than 0 and 1 stores true and fails the stream
ReadBool(text, st) ==
  IF st.fail \/ st.pos > Len(text) THEN [st EXCEPT !.fail = TRUE]
  ELSE LET v == DecToU64(text[st.pos])
       IN  [pos |-> st.pos + 1,
            fail |-> v.fail \/ v.v \notin {U64Zero, U64FromInt(1)},
            w |-> v.v # U64Zero]

\* for (i = 0; i < in_size_ * out_size_; i++) { is >> w; Wbin_[i] = w; }
RECURSIVE LoadBits(_, _, _, _)
LoadBits(text, i, st, wbin) ==
  IF i >= weight_dim(cfg) THEN [st |-> st, Wbin_ |-> wbin]
  ELSE LET st2 == ReadBool(text, st)
       IN  LoadBits(text, i + 1, st2, [wbin EXCEPT ![i] = st2.w])

\* for (auto& thr : Threshold_) is >> thr;
RECURSIVE LoadThresholds(_, _, _, _)
LoadThresholds(text, i, st, thr) ==
  IF i >= cfg.out_size_ THEN [st |-> st, Threshold_ |-> thr]
  ELSE IF st.fail \/ st.pos > Len(text)
       THEN LoadThresholds(text, i + 1, [st EXCEPT !.fail = TRUE], thr)
       ELSE LET v == DecToU64(text[st.pos])
            IN  LoadThresholds(text, i + 1,
                               [st EXCEPT !.pos = st.pos + 1, !.fail = v.fail],
                               [thr EXCEPT ![i] = v.v])

\* load(is) on a layer holding wbin and thr; w0 is the value of the
\* uninitialised local "bool w"
LoadText(text, wbin, thr, w0) ==
  LET bits == LoadBits(text, 0, [pos |-> 1, fail |-> FALSE, w |-> w0], wbin)
      ths == LoadThresholds(text, 0, bits.st, thr)
  IN  [Wbin_ |-> bits.Wbin_, Threshold_ |-> ths.Threshold_, fail |-> ths.st.fail]

\* the lengths of the streams handed to load: empty, one bit, all bits but one,
\* the bits without the thresholds, all but the last token, everything
StreamLengths ==
  {k \in {0, 1, weight_dim(cfg) - 1, weight_dim(cfg), Len(stream.text) - 1,
          Len(stream.text)} : 0 <= k /\ k <= Len(stream.text)}

\* load from a stream holding the first k tokens of the saved text
load(k, w0) ==
  /\ cfg.kind = "binarynet"
  /\ Counted
  /\ LET r == LoadText(SubSeq(stream.text, 1, k), Wbin_, Threshold_, w0)
     IN  /\ Wbin_' = r.Wbin_
         /\ Threshold_' = r.Threshold_
         /\ op' = [name |-> "load", err |-> IF r.fail THEN "failbit" ELSE "none",
                   arg |-> k]
  /\ sync' = [sync EXCEPT !.loaded = TRUE,
                           !.raw = [j \in Units |-> [valid |-> FALSE, t |-> 0, scale |-> 0]]]
  /\ UNCHANGED <<cfg, W_, a_, output_, stream, fresh, calls>>

\* binarynet_layer l2(in_dim, out_dim); l2.load(is) with the whole saved text
load_fresh(w0) ==
  /\ cfg.kind = "binarynet"
  /\ stream.saved
  /\ Counted
  /\ LET r == LoadText(stream.text, FalseVec(weight_dim(cfg)),
                       [j \in Units |-> U64Zero], w0)
     IN  fresh' = [loaded |-> TRUE, Wbin_ |-> r.Wbin_, Threshold_ |-> r.Threshold_]
  /\ op' = Returned("load_fresh", 0)
  /\ UNCHANGED <<cfg, W_, Wbin_, Threshold_, a_, output_, stream, sync, calls>>

\* the binary parameter file: its complete 8-byte words, and the value the
\* bytes of an incomplete last word leave in "e" (0 when there are none)
FilePattern(p, j) ==
  CASE p = 0 -> 1
    [] p = 1 -> IF j % 2 = 0 THEN 2 ELSE 1
    [] OTHER -> IF j % 3 = 0 THEN 1 ELSE 0

FileWords(len, p) == [j \in 1 .. len |-> FilePattern(p, j - 1)]

Files ==
  {[open |-> FALSE, words |-> <<>>, tail |-> 0]} \cup
  {[open |-> TRUE, words |-> FileWords(weight_dim(cfg), p), tail |-> 0] : p \in 0 .. 2} \cup
  {[open |-> TRUE, words |-> FileWords(len, 0), tail |-> t] :
     len \in {0, weight_dim(cfg) - 1}, t \in {0, 1}}

\* unsigned long long e = 0; wf.read((char*)&e, 8); Wbin_[line] = e == 1;
\* a failed read leaves the bytes it got in e, later reads get nothing
FileWord(file, line) ==
  IF line < Len(file.words) THEN file.words[line + 1]
  ELSE IF line = Len(file.words) THEN file.tail
  ELSE 0

loadFromBinaryFile(file) ==
  /\ cfg.kind = "conv"
  /\ Counted
  /\ IF ~file.open
     THEN /\ op' = Thrown("loadFromBinaryFile", "Could not open file")
          /\ UNCHANGED <<Wbin_, sync>>
     ELSE /\ Wbin_' = [line \in DOMAIN Wbin_ |-> FileWord(file, line) = 1]
          /\ op' = Returned("loadFromBinaryFile", Len(file.words))
          /\ sync' = [sync EXCEPT !.loaded = TRUE]
  /\ UNCHANGED <<cfg, W_, Threshold_, a_, output_, stream, fresh, calls>>

\* ------------------------------------------------------------ specification
Next ==
  \/ \E w \in Vectors(weight_dim(cfg)) : UpdateWeights(w)
  \/ post_update
  \/ \E index \in Units, mean \in Means, gamma \in Gammas, invstd \in InvStds,
        beta \in Betas : set_threshold_from_batchnorm(index, mean, gamma, invstd, beta)
  \/ \E in \in Vectors(cfg.in_size_), index \in Workers : forward_propagation(in, index)
  \/ \E in_raw \in Vectors(cfg.in_size_), worker_index \in Workers :
        conv_forward_propagation(in_raw, worker_index)
  \/ back_propagation
  \/ back_propagation_2nd
  \/ save
  \/ \E k \in StreamLengths, w0 \in BOOLEAN : load(k, w0)
  \/ \E w0 \in BOOLEAN : load_fresh(w0)
  \/ \E file \in Files : loadFromBinaryFile(file)

Spec == Init /\ [][Next]_vars


\* ------------------------------------------------ persistence on any content
\* the bit vectors and thresholds a layer can hold: post_update and load reach
\* every bit vector, load reaches every size_t
Bits(n) == {float2bipolar(w, FalseVec(n)) : w \in Vectors(n)}

ThresholdSamples == {U64Zero, U64FromInt(65537), U64Half(U64FromInt(-4)), U64Max}

InitCodec ==
  \E c \in BinarynetConfigs \cup ConvSamples :
    \E wbin \in Bits(weight_dim(c)) :
      \E thr \in IF c.kind = "binarynet"
                 THEN [0 .. (c.out_size_ - 1) -> ThresholdSamples] ELSE {<<>>} :
        Layer(c, wbin, thr, <<>>)

NextCodec ==
  \/ save
  \/ \E k \in StreamLengths, w0 \in BOOLEAN : load(k, w0)
  \/ \E w0 \in BOOLEAN : load_fresh(w0)
  \/ \E file \in Files : loadFromBinaryFile(file)

SpecCodec == InitCodec /\ [][NextCodec]_vars


\* ------------------------------------------- convolution over every geometry
\* forward passes of a convolution layer of any geometry within the bounds; the
\* index arithmetic depends on the geometry alone, so two bit contents and two
\* inputs are taken
SomeVectors(n) == {[j \in 0 .. (n - 1) |-> Pattern(p, j)] : p \in {2, 3}}

InitConv ==
  \E c \in ConvConfigs :
    \E w \in SomeVectors(weight_dim(c)) :
      Layer(c, float2bipolar(w, FalseVec(weight_dim(c))), <<>>, <<>>)

NextConv ==
  \E in_raw \in SomeVectors(cfg.in_size_), worker_index \in Workers :
    conv_forward_propagation(in_raw, worker_index)

SpecConv == InitConv /\ [][NextConv]_vars


\* --------------------------------------- concurrent forward_propagation calls
\* Two callers each run one forward_propagation(in, index) call on one layer,
\* with different worker indices. A call is cut into the steps that touch the
\* shared layer object; for_i runs its body for i = 0, 1, ... in turn. Caller
\* "A" is the one that begins first.
Callers == {"A", "B"}

Idle ==
  [pc |-> "idle", index |-> 0, in |-> <<>>, in_bin |-> <<>>, i |-> 0, c |-> 0,
   res |-> <<>>, ret |-> <<>>, overlapped |-> FALSE]

InFlight(k) == calls[k].pc \notin {"idle", "done"}

\* std::vector<bool> in_bin(in_size_, false); float2bipolar(in, in_bin);
Begin(k, in, index) ==
  /\ calls[k].pc = "idle"
  /\ k = "B" => calls["A"].pc # "idle"
  /\ \A v \in Callers \ {k} : calls[v].pc # "idle" => calls[v].index # index
  /\ LET others == \E v \in Callers \ {k} : InFlight(v)
     IN  calls' = [v \in Callers |->
                     IF v = k
                     THEN [pc |-> IF cfg.Offload_ THEN "offload" ELSE "zero",
                           index |-> index, in |-> in,
                           in_bin |-> float2bipolar(in, FalseVec(cfg.in_size_)),
                           i |-> 0, c |-> 0, res |-> <<>>, ret |-> <<>>,
                           overlapped |-> others]
                     ELSE IF InFlight(v) THEN [calls[v] EXCEPT !.overlapped = TRUE]
                     ELSE calls[v]]
  /\ UNCHANGED <<cfg, W_, Wbin_, Threshold_, a_, output_, stream, fresh, op, sync, nops>>

\* the scratch vectors a call works on
Mine(k) == ScratchOf(calls[k].index)

\* a[i] = 0
ZeroUnit(k) ==
  /\ calls[k].pc = "zero"
  /\ a_' = [a_ EXCEPT ![Mine(k)][calls[k].i] = 0]
  /\ calls' = [calls EXCEPT ![k].pc = "unit", ![k].c = 0]
  /\ UNCHANGED <<cfg, W_, Wbin_, Threshold_, output_, stream, fresh, op, sync, nops>>

\* a[i] += (Wbin_[c * out_size_ + i] == in_bin[c]) ? +1 : miss
AccStep(k) ==
  /\ calls[k].pc = "unit"
  /\ calls[k].c < cfg.in_size_
  /\ a_' = [a_ EXCEPT ![Mine(k)][calls[k].i] =
              @ + Term(Wbin_, calls[k].in_bin, calls[k].c, calls[k].i, Miss)]
  /\ calls' = [calls EXCEPT ![k].c = @ + 1]
  /\ UNCHANGED <<cfg, W_, Wbin_, Threshold_, output_, stream, fresh, op, sync, nops>>

\* the end of the loop body of the first for_i: binarynet_layer writes out[i]
\* there, binarized_fc_layer writes it in its second for_i
EndUnit(k) ==
  /\ calls[k].pc = "unit"
  /\ calls[k].c >= cfg.in_size_
  /\ output_' = IF cfg.kind = "binarynet"
                THEN [output_ EXCEPT ![Mine(k)][calls[k].i] =
                        Compare(a_[Mine(k)][calls[k].i], Threshold_[calls[k].i])]
                ELSE output_
  /\ LET last == calls[k].i + 1 >= cfg.out_size_
     IN  calls' = [calls EXCEPT
                     ![k].i = IF last THEN 0 ELSE @ + 1,
                     ![k].pc = IF ~last THEN "zero"
                               ELSE IF cfg.kind = "bfc" THEN "act" ELSE "return"]
  /\ UNCHANGED <<cfg, W_, Wbin_, Threshold_, a_, stream, fresh, op, sync, nops>>

\* out[i] = h_.f(a, i)
Activate(k) ==
  /\ calls[k].pc = "act"
  /\ output_' = [output_ EXCEPT ![Mine(k)][calls[k].i] =
                   ActF(cfg.h_, a_[Mine(k)], calls[k].i)]
  /\ calls' = [calls EXCEPT ![k].i = @ + 1,
                            ![k].pc = IF calls[k].i + 1 >= cfg.out_size_
                                      THEN "return" ELSE "act"]
  /\ UNCHANGED <<cfg, W_, Wbin_, Threshold_, a_, stream, fresh, op, sync, nops>>

\* Offload_(in_bin, Threshold_, Wbin_, res)
OffloadCall(k) ==
  /\ calls[k].pc = "offload"
  /\ calls' = [calls EXCEPT ![k].res = Offload(calls[k].in_bin, Threshold_, Wbin_),
                            ![k].pc = "write", ![k].i = 0]
  /\ UNCHANGED <<cfg, W_, Wbin_, Threshold_, a_, output_, stream, fresh, op, sync, nops>>

\* for (i = 0; i < out_size_; i++) out[i] = res[i] == 1 ? +1 : -1
WriteOut(k) ==
  /\ calls[k].pc = "write"
  /\ calls[k].i < cfg.out_size_
  /\ output_' = [output_ EXCEPT ![Mine(k)][calls[k].i] = FromBit(calls[k].res[calls[k].i])]
  /\ calls' = [calls EXCEPT ![k].i = @ + 1,
                            ![k].pc = IF calls[k].i + 1 >= cfg.out_size_
                                      THEN "return" ELSE "write"]
  /\ UNCHANGED <<cfg, W_, Wbin_, Threshold_, a_, stream, fresh, op, sync, nops>>

\* return out (next_ == 0); the caller reads the vector it is handed
Return(k) ==
  /\ calls[k].pc = "return"
  /\ calls' = [calls EXCEPT ![k].pc = "done", ![k].ret = output_[Mine(k)]]
  /\ UNCHANGED <<cfg, W_, Wbin_, Threshold_, a_, output_, stream, fresh, op, sync, nops>>

\* thresholds 1, 2, 1, ... : both decisions occur for every fan-in
ThresholdsConc(c) ==
  IF c.kind = "binarynet"
  THEN [i \in 0 .. (c.out_size_ - 1) |-> U64FromInt(1 + (i % 2))] ELSE <<>>

InitConc ==
  \E c \in BfcConfigs \cup BinarynetConfigs :
    \E wbin \in Bits(weight_dim(c)) :
      Layer(c, wbin, ThresholdsConc(c), [k \in Callers |-> Idle])

NextConc ==
  \/ \E k \in Callers, in \in Vectors(cfg.in_size_), index \in Workers : Begin(k, in, index)
  \/ \E k \in Callers : ZeroUnit(k)
  \/ \E k \in Callers : AccStep(k)
  \/ \E k \in Callers : EndUnit(k)
  \/ \E k \in Callers : Activate(k)
  \/ \E k \in Callers : OffloadCall(k)
  \/ \E k \in Callers : WriteOut(k)
  \/ \E k \in Callers : Return(k)

SpecConc == InitConc /\ [][NextConc]_vars


\* ================================================================== claims
Stepped(names) == nops' # nops /\ op'.name \in names

FcForwardDone == cfg.kind \in {"bfc", "binarynet"} /\ op.name = "forward_propagation"

\* C1 (as stated in the specification): after forward_propagation of the
\* binarized fully-connected layer or the binarynet layer every element of the
\* output vector is -1 or +1
C1_OutputIsBipolar ==
  FcForwardDone => \A i \in Units : output_[op.arg][i] \in {-1, 1}

\* C1 (amended): after forward_propagation of the binarynet layer every output
\* element is -1 or +1, on the kernel path and on the offload path; after
\* forward_propagation of the binarized fully-connected layer every output
\* element is the activation function applied to the signed accumulator, an
\* integer between -fan_in and fan_in of the parity of fan_in
C1_OutputRange ==
  FcForwardDone =>
    \A i \in Units :
      IF cfg.kind = "binarynet" THEN output_[op.arg][i] \in {-1, 1}
      ELSE /\ output_[op.arg][i] = ActF(cfg.h_, a_[op.arg], i)
           /\ a_[op.arg][i] \in (-cfg.in_size_) .. cfg.in_size_
           /\ (a_[op.arg][i] + cfg.in_size_) % 2 = 0

C1_Witness ==
  /\ FcForwardDone
  /\ cfg.kind = "binarynet"
  /\ cfg.Offload_
  /\ cfg.out_size_ = 2
  /\ output_[op.arg][0] = -1
  /\ output_[op.arg][1] = 1

C3_FoldStoresSignedQuotient ==
  [][\A index \in Units, mean \in Means, gamma \in Gammas \ {0}, invstd \in InvStds,
        beta \in Betas :
       set_threshold_from_batchnorm(index, mean, gamma, invstd, beta) =>
         LET raw0 == RawThreshold(mean, gamma, invstd, beta)
             flip == gamma * invstd < 0
             raw == IF flip THEN -raw0 ELSE raw0
         IN  /\ Threshold_'[index] = U64FromInt(TruncDiv(raw + cfg.in_size_, 2))
             /\ Wbin_' = [j \in DOMAIN Wbin_ |->
                            IF flip /\ j % cfg.out_size_ = index THEN ~Wbin_[j]
                            ELSE Wbin_[j]]]_vars

\* C4: save followed by load of the saved text into a freshly constructed
\* layer of the same sizes leaves the fresh layer with the bits and the
\* thresholds of the saved layer
C4_SaveLoadRoundTrip ==
  fresh.loaded => (fresh.Wbin_ = stream.Wbin_ /\ fresh.Threshold_ = stream.Threshold_)

C4_Witness ==
  /\ fresh.loaded
  /\ cfg.in_size_ = 2
  /\ cfg.out_size_ = 2
  /\ fresh.Wbin_[0] /\ ~fresh.Wbin_[1]
  /\ fresh.Threshold_[0] = U64Max
  /\ fresh.Threshold_[1] = U64FromInt(65537)

\* C5: a load from a text with fewer tokens than bits plus thresholds, or from
\* a binary file with fewer 8-byte words than weights, fails and leaves the
\* bits and the thresholds as they were before the load
C5_ShortLoadFailsAtomically ==
  [][(\/ Stepped({"load"}) /\ op'.arg < weight_dim(cfg) + cfg.out_size_
      \/ Stepped({"loadFromBinaryFile"}) /\ op'.arg < weight_dim(cfg))
     => (op'.err # "none" /\ Wbin_' = Wbin_ /\ Threshold_' = Threshold_)]_vars

\* C6: back_propagation and back_propagation_2nd fail on every call in all
\* three layers and change neither the bits, the thresholds nor the scratch of
\* any worker
C6_TrainingFails ==
  [][Stepped({"back_propagation", "back_propagation_2nd"}) =>
       (/\ op'.err \in {"Not yet implemented", "Not implemented"}
        /\ Wbin_' = Wbin_ /\ Threshold_' = Threshold_
        /\ a_' = a_ /\ output_' = output_)]_vars

C6_Witness ==
  /\ op.name = "back_propagation_2nd"
  /\ op.err = "Not implemented"
  /\ cfg.kind = "conv"
  /\ \E j \in DOMAIN Wbin_ : Wbin_[j]

\* C7: a forward_propagation call leaves the bits and the thresholds unchanged
\* on the kernel path and on the offload path, and only post_update,
\* set_threshold_from_batchnorm and the two loads change them
C7_ForwardReadsOnly ==
  [][/\ Stepped({"forward_propagation"}) => (Wbin_' = Wbin_ /\ Threshold_' = Threshold_)
     /\ (Wbin_' # Wbin_ \/ Threshold_' # Threshold_) =>
          Stepped({"post_update", "set_threshold_from_batchnorm", "load",
                   "loadFromBinaryFile"})]_vars

C7_Witness ==
  /\ FcForwardDone
  /\ cfg.kind = "binarynet"
  /\ cfg.Offload_
  /\ \E j \in DOMAIN Wbin_ : Wbin_[j]
  /\ \E i \in Units : output_[op.arg][i] = -1

ConvForwardDone == cfg.kind = "conv" /\ op.name = "forward_propagation"

\* C8: with 1 <= k <= in_width and k <= in_height a forward pass of the
\* convolution layer reads weight indices below out_channels*in_channels*k*k
\* and input indices below in_channels*in_width*in_height only, and writes each
\* output index of 0 .. out_channels*out_height*out_width - 1 exactly once,
\* where out_width = in_width - k + 1 and out_height = in_height - k + 1
C8_ConvIndices ==
  ConvForwardDone =>
    LET g == cfg.geo
        k == g.window_size_
    IN  /\ 1 <= k /\ k <= g.in_width_ /\ k <= g.in_height_
        /\ g.out_width_ = g.in_width_ - k + 1
        /\ g.out_height_ = g.in_height_ - k + 1
        /\ \A j \in op.arg.weights :
             0 <= j /\ j < g.out_channels_ * g.in_channels_ * k * k
        /\ \A j \in op.arg.inputs :
             0 <= j /\ j < g.in_channels_ * g.in_width_ * g.in_height_
        /\ DOMAIN op.arg.writes = 0 .. (g.out_channels_ * g.out_height_ * g.out_width_ - 1)
        /\ \A j \in DOMAIN op.arg.writes : op.arg.writes[j] = 1

C8_Witness ==
  /\ ConvForwardDone
  /\ cfg.geo.in_width_ = 3 /\ cfg.geo.in_height_ = 2 /\ cfg.geo.window_size_ = 2
  /\ cfg.geo.in_channels_ = 2 /\ cfg.geo.out_channels_ = 2
  /\ Cardinality(DOMAIN op.arg.writes) = 4
  /\ Cardinality(op.arg.inputs) = 12

\* C9: for an output unit whose threshold was folded from an integer raw value
\* t with gamma * invstd > 0, the popcount output (+1 iff matches >= threshold)
\* equals the signed decision (+1 iff 2 * matches - fan_in >= t)
C9_PopcountEqualsSigned ==
  (FcForwardDone /\ cfg.kind = "binarynet" /\ ~cfg.Offload_) =>
    \A i \in Units :
      (sync.raw[i].valid /\ sync.raw[i].scale > 0) =>
        output_[op.arg][i] =
          (IF 2 * a_[op.arg][i] - cfg.in_size_ >= sync.raw[i].t THEN 1 ELSE -1)

\* C10: a forward_propagation call that ran together with another call using
\* a different worker index returns the output vector it returns when run
\* alone on the same input
C10_CallsAreIsolated ==
  \A k \in Callers :
    calls[k].pc = "done" => calls[k].ret = Kernel(calls[k].in, <<>>, <<>>).out

C10_Witness ==
  /\ calls["A"].pc = "done" /\ calls["B"].pc = "done"
  /\ calls["A"].overlapped /\ calls["B"].overlapped
  /\ ~cfg.Offload_
  /\ cfg.out_size_ = 2
  /\ calls["A"].ret # calls["B"].ret

====
